---- MODULE Spec2Model ----
(***************************************************************************)
(* The chain reorganisation monitor of eth_defi.event_reader               *)
(* (reorganisation_monitor.py): the block header buffer, its operations,   *)
(* the update_chain() resolution loop and the mock chain that feeds it.    *)
(***************************************************************************)
EXTENDS Integers, Sequences, FiniteSets, TLC

(***************************************************************************)
(* Bounds of the model.                                                    *)
(***************************************************************************)
\* Highest block number the mock chain produces and a caller passes.
MaxBlock == 3
\* check_depth is drawn from 0..MaxDepth (the code's default is 20).
MaxDepth == 2
\* max_cycle_tries of the modelled monitor (the code's default is 10).
MaxCycleTries == 3
\* Highest transaction count the chain reports to sync_nonce; the wallet
\* allocates nonces up to twice this value.
MaxNonce == 4
\* Length of the chain in the worked scenario (blocks 1 .. ScenarioTip).
ScenarioTip == 100
\* Blocks the scenario's chain grows by between two loads of the buffer.
ScenarioChunk == 25

(***************************************************************************)
(* Values.                                                                 *)
(***************************************************************************)
\* ReorganisationMonitor.check_depth: int = 20
DefaultCheckDepth == 20

\* MockChainAndReorganisationMonitor.__init__: block_duration_seconds=1
BlockDuration == 1

\* hex(num): the string "0x<digits of num>"; two such strings are equal
\* exactly when the numbers are, which the tagged pair keeps.
Hex(num) == <<"0x", num>>

\* produce_fork's default fork_marker "0x8888" (0x8888 = 34952)
ForkMarker == <<"0x", 34952>>

\* BlockHeader(block_number, block_hash, timestamp)
BlockHeader(block_number, block_hash, timestamp) ==
    [block_number |-> block_number, block_hash |-> block_hash, timestamp |-> timestamp]

SetMax(S) == CHOOSE x \in S : \A y \in S : y <= x
SetMin(S) == CHOOSE x \in S : \A y \in S : x <= y
Max2(a, b) == IF a >= b THEN a ELSE b
Min2(a, b) == IF a <= b THEN a ELSE b

\* A dict: a function whose domain is the set of keys.
EmptyDict == [n \in {} |-> n]
DictPut(d, k, v) == (k :> v) @@ d
DictDel(d, keys) == [n \in DOMAIN d \ keys |-> d[n]]

VARIABLES
    block_map,               \* ReorganisationMonitor.block_map
    last_block_read,         \* ReorganisationMonitor.last_block_read
    check_depth,             \* ReorganisationMonitor.check_depth
    simulated_blocks,        \* MockChainAndReorganisationMonitor.simulated_blocks
    simulated_block_number,  \* next block number the mock chain produces
    pc,                      \* "idle", or "sleep": inside update_chain's time.sleep
    tries_left,              \* update_chain's local
    max_purge,               \* update_chain's local
    reorg_detected,          \* update_chain's local
    ret,                     \* the last finished call: what was called, how it ended
    observed,                \* per buffered block, the header the source yielded last
    passes,                  \* figure_reorganisation_and_new_blocks calls of this update_chain
    reorgs,                  \* blocks at which this update_chain caught a reorg, in order
    fork_block,              \* the block a scenario forked (0: none yet)
    current_nonce,           \* HSMWallet.current_nonce
    wallet_ret,              \* the last finished call of the wallet
    synced_nonce,            \* the value the last sync_nonce set (None: never synced)
    allocated,               \* allocate_nonce calls made since the last sync_nonce
    lazy_start_block,        \* LazyTimestampContainer.start_block
    lazy_end_block,          \* LazyTimestampContainer.end_block
    cache_by_block_hash,     \* LazyTimestampContainer.cache_by_block_hash
    cache_by_block_number,   \* LazyTimestampContainer.cache_by_block_number
    lazy_ret,                \* the last finished call of the container
    save_calls,              \* last_block_read at each save_callable() call of the last load
    threads                  \* per thread inside update_chain: its position and its locals

monVars == <<block_map, last_block_read, check_depth>>
srcVars == <<simulated_blocks, simulated_block_number>>
ucVars == <<pc, tries_left, max_purge, reorg_detected, passes, reorgs>>
walletVars == <<current_nonce, wallet_ret, synced_nonce, allocated>>
lazyVars == <<lazy_start_block, lazy_end_block, cache_by_block_hash,
              cache_by_block_number, lazy_ret>>
hookVars == <<save_calls>>
threadVars == <<threads>>
\* The monitor, its mock chain and what is recorded about their calls.
monitorVars == <<monVars, srcVars, ucVars, ret, observed, fork_block, hookVars, threadVars>>
vars == <<block_map, last_block_read, check_depth, simulated_blocks,
          simulated_block_number, pc, tries_left, max_purge, reorg_detected,
          ret, observed, passes, reorgs, fork_block, walletVars, lazyVars, hookVars, threadVars>>

(***************************************************************************)
(* The monitor's operations, as functions of the state they read.          *)
(***************************************************************************)
\* What an operation leaves behind: the buffer, last_block_read, the exception.
Outcome(bm, lbr, exc) == [block_map |-> bm, last_block_read |-> lbr, exc |-> exc]

\* A plausible slip: the order assertion left out.
add_block_unordered(bm, lbr, record) ==
    IF record.block_number \in DOMAIN bm
    THEN Outcome(bm, lbr, "AssertionError")
    ELSE Outcome(DictPut(bm, record.block_number, record), record.block_number, "none")

\* ReorganisationMonitor.add_block
add_block(bm, lbr, record) ==
    LET block_number == record.block_number IN
    IF block_number \in DOMAIN bm
    THEN Outcome(bm, lbr, "AssertionError")
    ELSE IF lbr # 0 /\ lbr # block_number - 1
         \* the header is stored before the order assertion runs
         THEN Outcome(DictPut(bm, block_number, record), lbr, "AssertionError")
         ELSE Outcome(DictPut(bm, block_number, record), block_number, "none")

\* The exception check_block_reorg raises, or none.
NoReorg == [exc |-> "none"]

\* A plausible slip: the original and the new hash swapped in the exception.
check_block_reorg_swapped(bm, block_number, block_hash) ==
    IF block_number \in DOMAIN bm /\ bm[block_number].block_hash # block_hash
    THEN [exc |-> "ChainReorganisationDetected", block_number |-> block_number,
          original_hash |-> block_hash, new_hash |-> bm[block_number].block_hash]
    ELSE NoReorg

\* A plausible slip: the block numbers compared instead of the hashes.
check_block_reorg_by_number(bm, block_number, block_hash) ==
    IF block_number \in DOMAIN bm /\ bm[block_number].block_number # block_number
    THEN [exc |-> "ChainReorganisationDetected", block_number |-> block_number,
          original_hash |-> bm[block_number].block_hash, new_hash |-> block_hash]
    ELSE NoReorg

\* ReorganisationMonitor.check_block_reorg
check_block_reorg(bm, block_number, block_hash) ==
    IF block_number \in DOMAIN bm /\ bm[block_number].block_hash # block_hash
    THEN [exc |-> "ChainReorganisationDetected", block_number |-> block_number,
          original_hash |-> bm[block_number].block_hash, new_hash |-> block_hash]
    ELSE NoReorg

\* A plausible slip: the deletions left out, only last_block_read moved.
truncate_no_delete(bm, lbr, latest_good_block) ==
    IF lbr = 0
    THEN Outcome(bm, lbr, "AssertionError")
    ELSE Outcome(bm, latest_good_block, "none")

\* A plausible slip: range(latest_good_block, ...) deletes the good block too.
truncate_inclusive(bm, lbr, latest_good_block) ==
    IF lbr = 0
    THEN Outcome(bm, lbr, "AssertionError")
    ELSE LET rng == latest_good_block .. lbr
             missing == {n \in rng : n \notin DOMAIN bm}
         IN  IF missing = {}
             THEN Outcome(DictDel(bm, rng), latest_good_block, "none")
             ELSE Outcome(DictDel(bm, {n \in rng : n < SetMin(missing)}), lbr, "KeyError")

\* ReorganisationMonitor.truncate: del block_map[n] for n in
\* range(latest_good_block + 1, last_block_read + 1), stopping with KeyError at
\* the first n that is not a key.
truncate(bm, lbr, latest_good_block) ==
    IF lbr = 0
    THEN Outcome(bm, lbr, "AssertionError")
    ELSE LET rng == (latest_good_block + 1) .. lbr
             missing == {n \in rng : n \notin DOMAIN bm}
         IN  IF missing = {}
             THEN Outcome(DictDel(bm, rng), latest_good_block, "none")
             ELSE Outcome(DictDel(bm, {n \in rng : n < SetMin(missing)}), lbr, "KeyError")

\* A plausible slip: only the empty buffer is refused; an absent number
\* gets the nominal timestamp.
get_block_timestamp_nominal(bm, block_number) ==
    IF DOMAIN bm = {}
    THEN [exc |-> "BlockNotAvailable", timestamp |-> 0]
    ELSE [exc |-> "none", timestamp |-> block_number * BlockDuration]

\* ReorganisationMonitor.get_block_timestamp
get_block_timestamp(bm, block_number) ==
    IF DOMAIN bm = {}
    THEN [exc |-> "BlockNotAvailable", timestamp |-> 0]
    ELSE IF block_number \notin DOMAIN bm
         THEN [exc |-> "BlockNotAvailable", timestamp |-> 0]
         ELSE [exc |-> "none", timestamp |-> bm[block_number].timestamp]

\* ReorganisationMonitor.restore(block_map) on a monitor holding bm, lbr:
\* the mapping is taken over first, then max() of its keys raises ValueError
\* for a mapping without keys.
restore(bm, lbr, given) ==
    IF DOMAIN given = {}
    THEN Outcome(given, lbr, "ValueError")
    ELSE Outcome(given, SetMax(DOMAIN given), "none")

\* ReorganisationMonitor.has_data
has_data(bm) == Cardinality(DOMAIN bm) > 0

(***************************************************************************)
(* Calls.  An AssertionError or a KeyError is a failed precondition, an    *)
(* AttributeError a call on None: the caller's run ends there and the      *)
(* monitor receives no further call.                                       *)
(***************************************************************************)
Fatal == {"AssertionError", "KeyError", "AttributeError"}
Crashed == ret.exc \in Fatal

\* Python's None where an int is expected (current_nonce: Optional[int]):
\* a value that is no nonce, no block number and no timestamp.
None == -1

\* HSMWallet.__init__: no nonce yet.
WalletNew ==
    /\ current_nonce = None
    /\ wallet_ret = [op |-> "init", exc |-> "none", val |-> None]
    /\ synced_nonce = None
    /\ allocated = 0

\* LazyTimestampContainer.__init__(web3, start_block, end_block); its two
\* asserts hold for the ranges the model constructs.
LazyNew(first_block, last_block) ==
    /\ first_block > 0 /\ last_block >= first_block
    /\ lazy_start_block = first_block
    /\ lazy_end_block = last_block
    /\ cache_by_block_hash = EmptyDict
    /\ cache_by_block_number = EmptyDict
    /\ lazy_ret = [op |-> "init", exc |-> "none", number |-> None, val |-> None]

\* The state after construction: ReorganisationMonitor's field defaults and
\* MockChainAndReorganisationMonitor.__init__.
MonitorNew(depths) ==
    /\ block_map = EmptyDict
    /\ last_block_read = 0
    /\ check_depth \in depths
    /\ simulated_blocks = EmptyDict
    /\ simulated_block_number = 1
    /\ pc = "idle"
    /\ tries_left = 0
    /\ max_purge = 0
    /\ reorg_detected = FALSE
    /\ ret = [op |-> "init", exc |-> "none", arg |-> <<>>, val |-> <<>>]
    /\ observed = EmptyDict
    /\ passes = 0
    /\ reorgs = <<>>
    /\ fork_block = 0
    /\ save_calls = <<>>
    /\ threads = EmptyDict

\* A monitor after construction, beside a wallet and a container that are
\* constructed and then left alone.
InitWith(depths) == MonitorNew(depths) /\ WalletNew /\ LazyNew(1, 1)

\* The headers a caller passes to add_block: any hash of the two a block can
\* carry, the mock's timestamp or a later one.
HashesOf(block_number) == {Hex(block_number), ForkMarker}
HeadersOf(numbers) ==
    UNION {{BlockHeader(n, h, n * BlockDuration + skew) : h \in HashesOf(n), skew \in {0, 1}} :
           n \in numbers}

\* A direct call of add_block(record).
AddBlockCall(record) ==
    /\ pc = "idle" /\ ~Crashed
    /\ LET r == add_block(block_map, last_block_read, record) IN
        /\ block_map' = r.block_map
        /\ last_block_read' = r.last_block_read
        /\ ret' = [op |-> "add_block", exc |-> r.exc, arg |-> record, val |-> <<>>]
    /\ observed' = block_map'
    /\ UNCHANGED <<check_depth, srcVars, ucVars, fork_block,
                   walletVars, lazyVars, hookVars, threadVars>>

\* A direct call of truncate(latest_good_block).
TruncateCall(latest_good_block) ==
    /\ pc = "idle" /\ ~Crashed
    /\ LET r == truncate(block_map, last_block_read, latest_good_block) IN
        /\ block_map' = r.block_map
        /\ last_block_read' = r.last_block_read
        \* val: how many headers the call deleted
        /\ ret' = [op |-> "truncate", exc |-> r.exc, arg |-> latest_good_block,
                   val |-> Cardinality(DOMAIN block_map) - Cardinality(DOMAIN r.block_map)]
    /\ observed' = block_map'
    /\ UNCHANGED <<check_depth, srcVars, ucVars, fork_block,
                   walletVars, lazyVars, hookVars, threadVars>>

\* A plausible slip: pop() where a lookup is meant: the key is removed.
block_map_get_pop(bm, block_number) == DictDel(bm, {block_number})

\* block_map after self.block_map.get(block_number) or
\* self.block_map[block_number]: a lookup in a plain dict inserts nothing.
block_map_get(bm, block_number) == bm

\* A direct call of check_block_reorg(block_number, block_hash).
CheckBlockReorgCall(block_number, block_hash) ==
    /\ pc = "idle" /\ ~Crashed
    /\ block_map' = block_map_get(block_map, block_number)
    /\ ret' = [op |-> "check_block_reorg",
               exc |-> check_block_reorg(block_map, block_number, block_hash).exc,
               arg |-> [block_number |-> block_number, block_hash |-> block_hash],
               val |-> check_block_reorg(block_map, block_number, block_hash)]
    /\ UNCHANGED <<last_block_read, check_depth, srcVars, ucVars, observed, fork_block,
                   walletVars, lazyVars, hookVars, threadVars>>

\* A direct call of get_block_timestamp(block_number).
GetBlockTimestampCall(block_number) ==
    /\ pc = "idle" /\ ~Crashed
    /\ block_map' = block_map_get(block_map, block_number)
    /\ ret' = [op |-> "get_block_timestamp",
               exc |-> get_block_timestamp(block_map, block_number).exc,
               arg |-> block_number,
               val |-> get_block_timestamp(block_map, block_number).timestamp]
    /\ UNCHANGED <<last_block_read, check_depth, srcVars, ucVars, observed, fork_block,
                   walletVars, lazyVars, hookVars, threadVars>>

(***************************************************************************)
(* SpecAdd: add_block alone, on an initially empty monitor, with block     *)
(* numbers from 0.                                                         *)
(***************************************************************************)
AddAnyBlock == \E record \in HeadersOf(0 .. MaxBlock) : AddBlockCall(record)

InitAdd == InitWith({0})
NextAdd == AddAnyBlock
SpecAdd == InitAdd /\ [][NextAdd]_vars

(***************************************************************************)
(* SpecApi: the buffer operations called directly, block numbers from 1    *)
(* (the numbers the monitor itself ever reads: check_start_at and          *)
(* start_block are max(..., 1), the mock refuses block 0).                 *)
(***************************************************************************)
AddBlock == \E record \in HeadersOf(1 .. MaxBlock) : AddBlockCall(record)
Truncate == \E latest_good_block \in 0 .. MaxBlock : TruncateCall(latest_good_block)
CheckBlockReorg ==
    \E block_number \in 1 .. MaxBlock :
        \E block_hash \in HashesOf(block_number) :
            CheckBlockReorgCall(block_number, block_hash)
GetBlockTimestamp == \E block_number \in 1 .. MaxBlock : GetBlockTimestampCall(block_number)

InitApi == InitWith({0})
NextApi == AddBlock \/ Truncate \/ CheckBlockReorg \/ GetBlockTimestamp
SpecApi == InitApi /\ [][NextApi]_vars

(***************************************************************************)
(* The mock chain: the source of headers.                                  *)
(***************************************************************************)
\* MockChainAndReorganisationMonitor.get_last_block_live
get_last_block_live(next_number) == next_number - 1

\* The record produce_blocks and produce_fork store for block num.
MockHeader(num, block_hash) == BlockHeader(num, block_hash, num * BlockDuration)

\* MockChainAndReorganisationMonitor.produce_blocks: simulated_blocks afterwards
produce_blocks(sim, next_number, block_count) ==
    [num \in DOMAIN sim \cup (next_number .. next_number + block_count - 1) |->
        IF num \in next_number .. next_number + block_count - 1
        THEN MockHeader(num, Hex(num))
        ELSE sim[num]]

\* MockChainAndReorganisationMonitor.produce_fork: simulated_blocks afterwards
produce_fork(sim, block_number, fork_marker) ==
    [num \in DOMAIN sim \cup {block_number} |->
        IF num = block_number THEN MockHeader(block_number, fork_marker) ELSE sim[num]]

\* A call of produce_blocks(block_count), while the monitor is idle or asleep.
ProduceBlocksCall(block_count) ==
    /\ pc \in {"idle", "sleep"} /\ ~Crashed
    /\ simulated_blocks' = produce_blocks(simulated_blocks, simulated_block_number, block_count)
    /\ simulated_block_number' = simulated_block_number + block_count
    /\ UNCHANGED <<monVars, ucVars, ret, observed, fork_block,
                   walletVars, lazyVars, hookVars, threadVars>>

\* A call of produce_fork(block_number, fork_marker) that changes the block's hash.
ProduceForkCall(block_number, fork_marker) ==
    /\ pc \in {"idle", "sleep"} /\ ~Crashed
    /\ simulated_blocks[block_number].block_hash # fork_marker
    /\ simulated_blocks' = produce_fork(simulated_blocks, block_number, fork_marker)
    /\ UNCHANGED <<simulated_block_number, monVars, ucVars, ret, observed, fork_block,
                   walletVars, lazyVars, hookVars, threadVars>>

ProduceBlocks ==
    \E block_count \in 1 .. MaxBlock :
        /\ simulated_block_number + block_count - 1 <= MaxBlock
        /\ ProduceBlocksCall(block_count)

\* A fork of a block the chain has: the marker forks it, hex(block_number)
\* takes the fork back.
ProduceFork ==
    \E block_number \in DOMAIN simulated_blocks :
        \E fork_marker \in HashesOf(block_number) :
            ProduceForkCall(block_number, fork_marker)

(***************************************************************************)
(* Reading the chain.                                                      *)
(***************************************************************************)
\* What a loop over fetched headers leaves behind: an Outcome, the reorg
\* exception if one was raised, and the number of the last header the loop
\* took from the source (one below the start if it took none).
PassResult(bm, lbr, exc, e, stop) ==
    [block_map |-> bm, last_block_read |-> lbr, exc |-> exc, e |-> e, stop |-> stop]

\* The headers fetch_block_data(start_block, ..) yielded up to block stop.
Fetched(sim, start_block, stop) == [n \in start_block .. stop |-> sim[n]]

\* The loop of figure_reorganisation_and_new_blocks over
\* MockChainAndReorganisationMonitor.fetch_block_data(i, end_block), which
\* yields simulated_blocks[i], ..., simulated_blocks[end_block] in order.
RECURSIVE figure_loop(_, _, _, _, _)
figure_loop(bm, lbr, sim, i, end_block) ==
    IF i > end_block
    THEN PassResult(bm, lbr, "none", NoReorg, end_block)
    ELSE LET block == sim[i]
             e == check_block_reorg(bm, block.block_number, block.block_hash)
         IN  IF e.exc # "none"
             THEN PassResult(bm, lbr, e.exc, e, i)
             ELSE IF block.block_number \notin DOMAIN bm
                  THEN LET a == add_block(bm, lbr, block) IN
                       IF a.exc # "none"
                       THEN PassResult(a.block_map, a.last_block_read, a.exc, NoReorg, i)
                       ELSE figure_loop(a.block_map, a.last_block_read, sim, i + 1, end_block)
                  ELSE figure_loop(bm, lbr, sim, i + 1, end_block)

\* A plausible slip: check_depth left out of the start of the re-read.
check_start_at_shallow(lbr, depth) == Max2(lbr, 1)

\* First block a detection pass re-reads.
check_start_at(lbr, depth) == Max2(lbr - depth, 1)

\* The last block fetch_block_data(start_block, end_block) yields from a source
\* that has blocks up to available.  JSONRPCReorganisationMonitor breaks out
\* of its loop at the first block the node answers None for; the mock has
\* every block up to end_block.
last_yielded(end_block, available) == Min2(end_block, available)

\* ReorganisationMonitor.figure_reorganisation_and_new_blocks, reading a
\* source that has blocks up to available.
figure_reorganisation_and_new_blocks(bm, lbr, depth, sim, next_number, available) ==
    figure_loop(bm, lbr, sim, check_start_at(lbr, depth),
                last_yielded(get_last_block_live(next_number), available))

\* The loop of load_initial_block_headers: add_block on every fetched header.
RECURSIVE load_loop(_, _, _, _, _)
load_loop(bm, lbr, sim, i, end_block) ==
    IF i > end_block
    THEN PassResult(bm, lbr, "none", NoReorg, end_block)
    ELSE LET a == add_block(bm, lbr, sim[i])
         IN  IF a.exc # "none"
             THEN PassResult(a.block_map, a.last_block_read, a.exc, NoReorg, i)
             ELSE load_loop(a.block_map, a.last_block_read, sim, i + 1, end_block)

\* A plausible slip: the resume from the last saved block left out.
load_start_block_requested(bm, end_block, block_count, start_block) ==
    IF block_count # 0 THEN Max2(end_block - block_count, 1) ELSE start_block

\* The start block load_initial_block_headers reads from; block_count = 0
\* stands for "not given" (if block_count: treats None and 0 alike).
load_start_block(bm, end_block, block_count, start_block) ==
    LET requested == IF block_count # 0 THEN Max2(end_block - block_count, 1) ELSE start_block
    IN  IF Cardinality(DOMAIN bm) > 0 THEN SetMax(DOMAIN bm) + 1 ELSE requested

\* ReorganisationMonitor.load_initial_block_headers, reading a source that
\* has blocks up to available.
load_initial_block_headers(bm, lbr, sim, next_number, block_count, start_block, available) ==
    load_loop(bm, lbr, sim,
              load_start_block(bm, get_last_block_live(next_number), block_count, start_block),
              last_yielded(get_last_block_live(next_number), available))

\* The headers the source yielded last, for the blocks the buffer holds.
Observe(obs, seen, bm) ==
    [n \in DOMAIN bm |-> IF n \in DOMAIN seen THEN seen[n]
                         ELSE IF n \in DOMAIN obs THEN obs[n] ELSE bm[n]]

\* A call of load_initial_block_headers(block_count=..) or (start_block=..)
\* on a source that has blocks up to available.
LoadInitialCallOver(block_count, start_block, available) ==
    /\ pc = "idle" /\ ~Crashed
    /\ LET r == load_initial_block_headers(block_map, last_block_read, simulated_blocks,
                                           simulated_block_number, block_count, start_block,
                                           available)
       IN
        /\ block_map' = r.block_map
        /\ last_block_read' = r.last_block_read
        /\ observed' = Observe(observed,
                                Fetched(simulated_blocks,
                                        load_start_block(block_map,
                                                         get_last_block_live(simulated_block_number),
                                                         block_count, start_block),
                                        r.stop),
                                r.block_map)
        /\ ret' = [op |-> "load_initial_block_headers", exc |-> r.exc, arg |-> <<>>,
                   val |-> <<load_start_block(block_map, get_last_block_live(simulated_block_number),
                                              block_count, start_block),
                             get_last_block_live(simulated_block_number)>>]
    /\ UNCHANGED <<check_depth, srcVars, ucVars, fork_block,
                   walletVars, lazyVars, hookVars, threadVars>>

\* The call on a source that has every block up to the tip (the mock).
LoadInitialCall(block_count, start_block) ==
    LoadInitialCallOver(block_count, start_block, get_last_block_live(simulated_block_number))

\* Either argument is given; on a buffer that has data both are ignored
\* (the read resumes after the last saved block), so one call stands for all.
LoadInitial ==
    \/ \E block_count \in 1 .. MaxBlock : LoadInitialCall(block_count, 0)
    \/ \E start_block \in 1 .. MaxBlock :
           /\ ~has_data(block_map)
           /\ LoadInitialCall(0, start_block)

(***************************************************************************)
(* update_chain.  The call runs from its entry to its return or raise, or  *)
(* to the time.sleep after a caught reorg; the chain moves while it sleeps.*)
(***************************************************************************)
\* A plausible slip: the two positional block numbers the other way round.
ChainReorganisationResolution_swapped(last_live_block, latest_block_with_good_data, detected) ==
    [last_live_block |-> latest_block_with_good_data,
     latest_block_with_good_data |-> last_live_block,
     reorg_detected |-> detected]

\* ChainReorganisationResolution
ChainReorganisationResolution(last_live_block, latest_block_with_good_data, detected) ==
    [last_live_block |-> last_live_block,
     latest_block_with_good_data |-> latest_block_with_good_data,
     reorg_detected |-> detected]

\* A plausible slip: max() where min() is meant.
narrow_max_purge_max(mp, block_number) ==
    IF mp # 0 THEN Max2(block_number - 1, mp) ELSE block_number

\* The except branch's new max_purge.
narrow_max_purge(mp, block_number) ==
    IF mp # 0 THEN Min2(block_number - 1, mp) ELSE block_number

\* A plausible slip: the except clause catches nothing.
recoverable_none(exc) == FALSE

\* except ChainReorganisationDetected: the one error update_chain catches.
recoverable(exc) == exc = "ChainReorganisationDetected"

\* A plausible slip: the decrement of tries_left left out.
next_tries_left_stuck(tl) == tl

\* tries_left after a caught reorg.
next_tries_left(tl) == tl - 1

\* A plausible slip: while tries_left > 1.
loop_continues_early(tl) == tl > 1

\* The while loop's test.
loop_continues(tl) == tl > 0

\* The while loop of update_chain from its test, with the locals tl
\* (tries_left), mp (max_purge), rd (reorg_detected), after np passes that
\* caught reorgs at the blocks rs; the source has blocks up to available when
\* the next pass reads it.
UpdateChainLoopOver(tl, mp, rd, np, rs, available) ==
    IF loop_continues(tl)
    THEN LET p == figure_reorganisation_and_new_blocks(block_map, last_block_read,
                                                      check_depth, simulated_blocks,
                                                      simulated_block_number, available)
             t == truncate(p.block_map, p.last_block_read, p.e.block_number - 1)
             seen == Fetched(simulated_blocks, check_start_at(last_block_read, check_depth), p.stop)
         IN
         /\ passes' = np + 1
         /\ IF p.exc = "none"
            THEN \* return ChainReorganisationResolution(...)
                 /\ block_map' = p.block_map
                 /\ last_block_read' = p.last_block_read
                 /\ observed' = Observe(observed, seen, p.block_map)
                 /\ ret' = [op |-> "update_chain", exc |-> "none", arg |-> <<>>,
                            val |-> ChainReorganisationResolution(p.last_block_read, mp, rd)]
                 /\ pc' = "idle" /\ tries_left' = 0 /\ max_purge' = 0 /\ reorg_detected' = FALSE
                 /\ reorgs' = rs
            ELSE IF recoverable(p.exc)
            THEN \* except ChainReorganisationDetected as e
                 /\ block_map' = t.block_map
                 /\ last_block_read' = t.last_block_read
                 /\ observed' = Observe(observed, seen, t.block_map)
                 /\ reorgs' = Append(rs, p.e.block_number)
                 /\ IF t.exc = "none"
                    THEN /\ pc' = "sleep"
                         /\ tries_left' = next_tries_left(tl)
                         /\ max_purge' = narrow_max_purge(mp, p.e.block_number)
                         /\ reorg_detected' = TRUE
                         /\ ret' = [op |-> "update_chain", exc |-> "sleeping", arg |-> <<>>,
                                    val |-> <<>>]
                    ELSE \* truncate raised: the error leaves update_chain
                         /\ pc' = "idle" /\ tries_left' = 0 /\ max_purge' = 0
                         /\ reorg_detected' = FALSE
                         /\ ret' = [op |-> "update_chain", exc |-> t.exc, arg |-> <<>>,
                                    val |-> <<>>]
            ELSE \* any other error leaves update_chain
                 /\ block_map' = p.block_map
                 /\ last_block_read' = p.last_block_read
                 /\ observed' = Observe(observed, seen, p.block_map)
                 /\ ret' = [op |-> "update_chain", exc |-> p.exc, arg |-> <<>>, val |-> <<>>]
                 /\ pc' = "idle" /\ tries_left' = 0 /\ max_purge' = 0 /\ reorg_detected' = FALSE
                 /\ reorgs' = rs
    ELSE \* raise ReorganisationResolutionFailure
         /\ ret' = [op |-> "update_chain", exc |-> "ReorganisationResolutionFailure",
                    arg |-> <<>>, val |-> <<>>]
         /\ pc' = "idle" /\ tries_left' = 0 /\ max_purge' = 0 /\ reorg_detected' = FALSE
         /\ passes' = np /\ reorgs' = rs
         /\ UNCHANGED <<block_map, last_block_read, observed>>

\* The loop on a source that has every block up to the tip (the mock).
UpdateChainLoop(tl, mp, rd, np, rs) ==
    UpdateChainLoopOver(tl, mp, rd, np, rs, get_last_block_live(simulated_block_number))

\* update_chain() is called: its locals are set and the loop runs.
UpdateChain ==
    /\ pc = "idle" /\ ~Crashed
    /\ UpdateChainLoop(MaxCycleTries, last_block_read, FALSE, 0, <<>>)
    /\ UNCHANGED <<check_depth, srcVars, fork_block,
                   walletVars, lazyVars, hookVars, threadVars>>

\* time.sleep(reorg_wait_seconds) returns and the loop goes on.
UpdateChainWake ==
    /\ pc = "sleep"
    /\ UpdateChainLoop(tries_left, max_purge, reorg_detected, passes, reorgs)
    /\ UNCHANGED <<check_depth, srcVars, fork_block,
                   walletVars, lazyVars, hookVars, threadVars>>

(***************************************************************************)
(* Spec: the monitor in use: load_initial_block_headers and update_chain   *)
(* against a chain that grows and forks.                                   *)
(***************************************************************************)
Init == InitWith(0 .. MaxDepth)
Next == ProduceBlocks \/ ProduceFork \/ LoadInitial \/ UpdateChain \/ UpdateChainWake
Spec == Init /\ [][Next]_vars

\* SpecLive: update_chain on a monitor that reads the chain from its first
\* block, the chain growing and forking at any time; time.sleep returns, so
\* a sleeping update_chain is woken.
NextLive == ProduceBlocks \/ ProduceFork \/ UpdateChain \/ UpdateChainWake
InitLive == InitWith({0, MaxDepth})
SpecLive == InitLive /\ [][NextLive]_vars /\ WF_vars(UpdateChainWake)

(***************************************************************************)
(* SpecShort: the monitor reading a JSON-RPC node that may not have the     *)
(* newest blocks yet: the loop of fetch_block_data ends at the first block  *)
(* the node answers None for.  The node's chain is simulated_blocks, its    *)
(* eth_blockNumber is get_last_block_live(), and the blocks it can serve    *)
(* end at a number chosen anew for every read.                              *)
(***************************************************************************)
\* update_chain() is called; the node serves blocks up to available.
UpdateChainOver(available) ==
    /\ pc = "idle" /\ ~Crashed
    /\ UpdateChainLoopOver(MaxCycleTries, last_block_read, FALSE, 0, <<>>, available)
    /\ UNCHANGED <<check_depth, srcVars, fork_block,
                   walletVars, lazyVars, hookVars, threadVars>>

\* time.sleep returns; the node serves blocks up to available.
UpdateChainWakeOver(available) ==
    /\ pc = "sleep"
    /\ UpdateChainLoopOver(tries_left, max_purge, reorg_detected, passes, reorgs, available)
    /\ UNCHANGED <<check_depth, srcVars, fork_block,
                   walletVars, lazyVars, hookVars, threadVars>>

LoadInitialShort ==
    \E available \in 0 .. get_last_block_live(simulated_block_number) :
        \/ \E block_count \in 1 .. MaxBlock : LoadInitialCallOver(block_count, 0, available)
        \/ \E start_block \in 1 .. MaxBlock :
               /\ ~has_data(block_map)
               /\ LoadInitialCallOver(0, start_block, available)

UpdateChainShort ==
    \E available \in 0 .. get_last_block_live(simulated_block_number) :
        UpdateChainOver(available)

UpdateChainWakeShort ==
    \E available \in 0 .. get_last_block_live(simulated_block_number) :
        UpdateChainWakeOver(available)

NextShort ==
    ProduceBlocks \/ ProduceFork \/ LoadInitialShort \/ UpdateChainShort \/ UpdateChainWakeShort
SpecShort == Init /\ [][NextShort]_vars

(***************************************************************************)
(* SpecSave: load_initial_block_headers with a save_callable, with or      *)
(* without a tqdm progress bar, against a chain that grows.  A             *)
(* save_callable stands for the value it reports as last saved block.      *)
(***************************************************************************)
\* if last_saved_block: None and 0 are false.
truthy(value) == value \notin {None, 0}

\* What the loop with callbacks leaves behind: a PassResult and
\* last_block_read at each call of save_callable.
SavingResult(p, calls) == [pass |-> p, calls |-> calls]

\* The loop of load_initial_block_headers with a save_callable that reports
\* last_saved; progress_bar is None unless tqdm is given.
RECURSIVE load_loop_saving(_, _, _, _, _, _, _, _)
load_loop_saving(bm, lbr, sim, i, end_block, tqdm, last_saved, calls) ==
    IF i > end_block
    THEN SavingResult(PassResult(bm, lbr, "none", NoReorg, end_block), calls)
    ELSE LET a == add_block(bm, lbr, sim[i])
         IN  IF a.exc # "none"
             THEN SavingResult(PassResult(a.block_map, a.last_block_read, a.exc, NoReorg, i),
                               calls)
             ELSE IF truthy(last_saved) /\ ~tqdm
                  THEN \* progress_bar.set_postfix on None
                       SavingResult(PassResult(a.block_map, a.last_block_read,
                                               "AttributeError", NoReorg, i),
                                    Append(calls, a.last_block_read))
                  ELSE load_loop_saving(a.block_map, a.last_block_read, sim, i + 1, end_block,
                                        tqdm, last_saved, Append(calls, a.last_block_read))

\* A call of load_initial_block_headers(.., tqdm=.., save_callable=..).
LoadInitialSavingCall(block_count, start_block, tqdm, last_saved) ==
    /\ pc = "idle" /\ ~Crashed
    /\ LET end_block == get_last_block_live(simulated_block_number)
           first == load_start_block(block_map, end_block, block_count, start_block)
           r == load_loop_saving(block_map, last_block_read, simulated_blocks, first, end_block,
                                 tqdm, last_saved, <<>>)
       IN
        /\ block_map' = r.pass.block_map
        /\ last_block_read' = r.pass.last_block_read
        /\ observed' = Observe(observed, Fetched(simulated_blocks, first, r.pass.stop),
                                r.pass.block_map)
        /\ save_calls' = r.calls
        /\ ret' = [op |-> "load_initial_block_headers", exc |-> r.pass.exc,
                   arg |-> <<tqdm, last_saved>>, val |-> <<first, end_block>>]
    /\ UNCHANGED <<check_depth, srcVars, ucVars, fork_block,
                   walletVars, lazyVars, threadVars>>

\* The values a save_callable reports.
Reported == {None} \cup (0 .. MaxBlock)

LoadInitialSaving ==
    \E tqdm \in BOOLEAN : \E last_saved \in Reported :
        \/ \E block_count \in 1 .. MaxBlock :
               LoadInitialSavingCall(block_count, 0, tqdm, last_saved)
        \/ \E start_block \in 1 .. MaxBlock :
               /\ ~has_data(block_map)
               /\ LoadInitialSavingCall(0, start_block, tqdm, last_saved)

NextSave == ProduceBlocks \/ LoadInitialSaving
SpecSave == Init /\ [][NextSave]_vars

(***************************************************************************)
(* SpecThreads: two threads call update_chain() on one monitor.  A thread   *)
(* is switched out between two fetched headers, between the membership     *)
(* test and add_block, and between two deletions of truncate.  The buffer  *)
(* is loaded from block 1 and the chain grows and forks before the first   *)
(* call; the chain stays as it is while the calls run.                     *)
(***************************************************************************)
Threads == {1, 2}

\* A plausible slip: the membership test before add_block left out.
not_in_block_map_always(bm, block_number) == TRUE

\* if block.block_number not in self.block_map
not_in_block_map(bm, block_number) == block_number \notin DOMAIN bm

\* The locals of a thread that enters update_chain(); overlapped records
\* that another thread was inside update_chain during this call.
ThreadEntered(lbr, overlapped) ==
    [pc |-> "while", i |-> 0, end_block |-> 0,
     tries_left |-> MaxCycleTries, max_purge |-> lbr, reorg_detected |-> FALSE,
     latest_good_block |-> 0, block_to_delete |-> 0, delete_end |-> 0,
     exc |-> "none", val |-> <<>>, overlapped |-> overlapped]

Inside == {t \in DOMAIN threads : threads[t].pc # "done"}

At(t, where) == t \in DOMAIN threads /\ threads[t].pc = where

\* A thread leaves update_chain by an exception or a return: its locals are
\* gone.
Leaves(thread, exc, val) ==
    [ThreadEntered(0, thread.overlapped) EXCEPT
        !.pc = "done", !.tries_left = 0, !.exc = exc, !.val = val]

\* while tries_left > 0: the next pass starts at its first header, or the
\* call gives up.
ThreadWhile(thread, lbr) ==
    IF loop_continues(thread.tries_left)
    THEN [thread EXCEPT !.pc = "for",
                        !.i = check_start_at(lbr, check_depth),
                        !.end_block = get_last_block_live(simulated_block_number),
                        !.latest_good_block = 0, !.block_to_delete = 0, !.delete_end = 0]
    ELSE Leaves(thread, "ReorganisationResolutionFailure", <<>>)

\* The end of truncate and of the except branch: tries_left drops, the
\* thread sleeps and goes back to the while test.
ThreadTruncated(thread) ==
    ThreadWhile([thread EXCEPT !.tries_left = next_tries_left(@)], thread.latest_good_block)

\* Thread t calls update_chain(); the threads are numbered by their calls.
ThreadUpdateChain(t) ==
    /\ t \notin DOMAIN threads
    /\ \A u \in Threads : u < t => u \in DOMAIN threads
    /\ pc = "idle" /\ ~Crashed
    /\ threads' = [u \in DOMAIN threads \cup {t} |->
                      IF u = t
                      THEN ThreadWhile(ThreadEntered(last_block_read, Inside # {}),
                                       last_block_read)
                      ELSE IF u \in Inside THEN [threads[u] EXCEPT !.overlapped = TRUE]
                      ELSE threads[u]]
    /\ UNCHANGED <<monVars, srcVars, ucVars, ret, observed, fork_block,
                   walletVars, lazyVars, hookVars>>

\* One turn of the for loop up to the membership test: the next header is
\* fetched and checked against the buffer.  A detected reorg takes the
\* thread into truncate, up to its first deletion.
ThreadFor(t) ==
    /\ At(t, "for")
    /\ LET thread == threads[t]
           block == simulated_blocks[thread.i]
           e == check_block_reorg(block_map, thread.i, block.block_hash)
           caught == [thread EXCEPT !.latest_good_block = e.block_number - 1,
                                    !.reorg_detected = TRUE,
                                    !.max_purge = narrow_max_purge(@, e.block_number)]
       IN  IF thread.i > thread.end_block
           THEN /\ threads' = [threads EXCEPT ![t] =
                                  Leaves(@, "none",
                                         ChainReorganisationResolution(last_block_read,
                                                                       @.max_purge,
                                                                       @.reorg_detected))]
                /\ last_block_read' = last_block_read
           ELSE IF e.exc # "none"
           THEN IF last_block_read = 0
                THEN \* assert self.last_block_read
                     /\ threads' = [threads EXCEPT ![t] = Leaves(@, "AssertionError", <<>>)]
                     /\ last_block_read' = last_block_read
                ELSE IF e.block_number > last_block_read
                THEN \* nothing to delete
                     /\ threads' = [threads EXCEPT ![t] = ThreadTruncated(caught)]
                     /\ last_block_read' = caught.latest_good_block
                ELSE /\ threads' = [threads EXCEPT ![t] =
                                       [caught EXCEPT !.pc = "del",
                                                      !.block_to_delete = e.block_number,
                                                      !.delete_end = last_block_read]]
                     /\ last_block_read' = last_block_read
           ELSE /\ threads' = [threads EXCEPT ![t] =
                                  IF not_in_block_map(block_map, thread.i)
                                  THEN [@ EXCEPT !.pc = "add_block"]
                                  ELSE [@ EXCEPT !.i = @ + 1]]
                /\ last_block_read' = last_block_read
    /\ UNCHANGED <<block_map, check_depth, srcVars, ucVars, ret, observed, fork_block,
                   walletVars, lazyVars, hookVars>>

\* self.add_block(block) on the header the membership test let through.
ThreadAddBlock(t) ==
    /\ At(t, "add_block")
    /\ LET a == add_block(block_map, last_block_read, simulated_blocks[threads[t].i])
       IN  /\ block_map' = a.block_map
           /\ last_block_read' = a.last_block_read
           /\ threads' = [threads EXCEPT ![t] =
                             IF a.exc # "none" THEN Leaves(@, a.exc, <<>>)
                             ELSE [@ EXCEPT !.pc = "for", !.i = @ + 1]]
    /\ UNCHANGED <<check_depth, srcVars, ucVars, ret, observed, fork_block,
                   walletVars, lazyVars, hookVars>>

\* One del self.block_map[block_to_delete]; the last one is followed by the
\* assignment of last_block_read.
ThreadDelete(t) ==
    /\ At(t, "del")
    /\ LET thread == threads[t] IN
       IF thread.block_to_delete \notin DOMAIN block_map
       THEN /\ threads' = [threads EXCEPT ![t] = Leaves(@, "KeyError", <<>>)]
            /\ UNCHANGED <<block_map, last_block_read>>
       ELSE /\ block_map' = DictDel(block_map, {thread.block_to_delete})
            /\ IF thread.block_to_delete = thread.delete_end
               THEN /\ last_block_read' = thread.latest_good_block
                    /\ threads' = [threads EXCEPT ![t] = ThreadTruncated(@)]
               ELSE /\ last_block_read' = last_block_read
                    /\ threads' = [threads EXCEPT ![t] =
                                      [@ EXCEPT !.block_to_delete = @ + 1]]
    /\ UNCHANGED <<check_depth, srcVars, ucVars, ret, observed, fork_block,
                   walletVars, lazyVars, hookVars>>

\* The chain and the buffer before the first update_chain() call.
BeforeThreads(A) == threads = EmptyDict /\ A

NextThreads ==
    \/ BeforeThreads(ProduceBlocks)
    \/ BeforeThreads(ProduceFork)
    \/ BeforeThreads(LoadInitialCall(0, 1))
    \/ \E t \in Threads :
           \/ ThreadUpdateChain(t)
           \/ ThreadFor(t)
           \/ ThreadAddBlock(t)
           \/ ThreadDelete(t)
SpecThreads == InitLive /\ [][NextThreads]_vars

(***************************************************************************)
(* SpecCount: the buffer is filled by load_initial_block_headers with      *)
(* block_count only, for every check_depth, and kept up to date by         *)
(* update_chain against a chain that grows and forks.                      *)
(***************************************************************************)
LoadByCount == \E block_count \in 1 .. MaxBlock : LoadInitialCall(block_count, 0)

NextCount == ProduceBlocks \/ ProduceFork \/ LoadByCount \/ UpdateChain \/ UpdateChainWake
SpecCount == Init /\ [][NextCount]_vars

(***************************************************************************)
(* SpecFork: a buffer filled and kept up to date against a chain that only *)
(* grows; then one buffered block inside the re-read range forks, the      *)
(* chain stays as it is, and update_chain() is called.                     *)
(***************************************************************************)
\* produce_fork on a buffered block no more than check_depth below
\* last_block_read.
ForkOnce ==
    \E block_number \in DOMAIN block_map :
        /\ fork_block = 0 /\ pc = "idle" /\ ~Crashed
        /\ block_number \in DOMAIN simulated_blocks
        /\ block_number >= last_block_read - check_depth
        /\ simulated_blocks' = produce_fork(simulated_blocks, block_number, ForkMarker)
        /\ fork_block' = block_number
        /\ ret' = [op |-> "produce_fork", exc |-> "none", arg |-> block_number, val |-> <<>>]
        /\ UNCHANGED <<simulated_block_number, monVars, ucVars, observed,
                       walletVars, lazyVars, hookVars, threadVars>>

GrowBeforeFork == fork_block = 0 /\ ProduceBlocks
LoadBeforeFork == fork_block = 0 /\ LoadInitial
UpdateBeforeFork == fork_block = 0 /\ UpdateChain
\* The update_chain() call that follows the fork.
UpdateAfterFork == ret.op = "produce_fork" /\ UpdateChain

InitFork == InitWith(0 .. MaxDepth)
NextFork ==
    \/ GrowBeforeFork \/ LoadBeforeFork \/ UpdateBeforeFork
    \/ ForkOnce \/ UpdateAfterFork \/ UpdateChainWake
SpecFork == InitFork /\ [][NextFork]_vars

(***************************************************************************)
(* SpecScenario: check_depth = 20, the buffer loaded for blocks            *)
(* 1 .. ScenarioTip; the source reports one block of the re-read range     *)
(* with another hash during the first fetch of an update_chain() call and  *)
(* the original hashes on every later fetch.                               *)
(***************************************************************************)
\* The chain grows to ScenarioTip, the buffer following it load by load.
ScenarioProduce ==
    /\ fork_block = 0
    /\ get_last_block_live(simulated_block_number) < ScenarioTip
    /\ last_block_read = get_last_block_live(simulated_block_number)
    /\ ProduceBlocksCall(Min2(ScenarioChunk,
                              ScenarioTip - get_last_block_live(simulated_block_number)))
ScenarioLoad ==
    /\ fork_block = 0
    /\ last_block_read < get_last_block_live(simulated_block_number)
    /\ LoadInitialCall(0, 1)
\* The fork is taken back while update_chain sleeps.
ScenarioRevert == pc = "sleep" /\ ProduceForkCall(fork_block, Hex(fork_block))
\* The chain may grow by a block while update_chain sleeps.
ScenarioGrow ==
    /\ pc = "sleep" /\ simulated_block_number = ScenarioTip + 1
    /\ ProduceBlocksCall(1)
\* The later fetches see the original hashes.
ScenarioWake ==
    /\ pc = "sleep"
    /\ simulated_blocks[fork_block].block_hash = Hex(fork_block)
    /\ UpdateChainWake
ScenarioGetTimestamp ==
    /\ fork_block # 0 /\ ret.op = "update_chain"
    /\ GetBlockTimestampCall(fork_block)

\* The fork happens once the buffer holds 1 .. ScenarioTip.
ScenarioFork == last_block_read = ScenarioTip /\ ForkOnce

InitScenario == InitWith({DefaultCheckDepth})
NextScenario ==
    \/ ScenarioProduce \/ ScenarioLoad \/ ScenarioFork \/ UpdateAfterFork
    \/ ScenarioRevert \/ ScenarioGrow \/ ScenarioWake \/ ScenarioGetTimestamp
SpecScenario == InitScenario /\ [][NextScenario]_vars

(***************************************************************************)
(* SpecRestore: the monitor driven by add_block, truncate and update_chain *)
(* against a mock chain that grows (a header added with another hash than  *)
(* the chain's is a reorg for update_chain); at any time its block_map is  *)
(* handed to restore() of a newly constructed monitor.                     *)
(***************************************************************************)
\* MockChainAndReorganisationMonitor().restore(block_map): the new monitor's
\* block_map and last_block_read afterwards are kept in ret.val.
RestoreCall ==
    /\ pc = "idle" /\ ~Crashed
    /\ LET r == restore(EmptyDict, 0, block_map) IN
        ret' = [op |-> "restore", exc |-> r.exc, arg |-> <<>>,
                val |-> [block_map |-> r.block_map, last_block_read |-> r.last_block_read]]
    /\ UNCHANGED <<monVars, srcVars, ucVars, observed, fork_block,
                   walletVars, lazyVars, hookVars, threadVars>>

InitRestore == InitWith(0 .. MaxDepth)
NextRestore ==
    \/ AddBlock \/ Truncate \/ ProduceBlocks
    \/ UpdateChain \/ UpdateChainWake \/ RestoreCall
SpecRestore == InitRestore /\ [][NextRestore]_vars

(***************************************************************************)
(* SpecWallet: HSMWallet's nonce counter under sync_nonce, allocate_nonce  *)
(* and sign_transaction_with_new_nonce.                                    *)
(***************************************************************************)
\* What a wallet call leaves behind: current_nonce, the exception, the
\* nonce it handed out.
WalletOutcome(cn, exc, nonce) == [current_nonce |-> cn, exc |-> exc, nonce |-> nonce]

\* HSMWallet.sync_nonce: current_nonce = web3.eth.get_transaction_count(address)
sync_nonce(transaction_count) == transaction_count

\* A plausible slip: the counter is read but not incremented.
allocate_nonce_stuck(cn) ==
    IF cn = None
    THEN WalletOutcome(cn, "AssertionError", None)
    ELSE WalletOutcome(cn, "none", cn)

\* HSMWallet.allocate_nonce
allocate_nonce(cn) ==
    IF cn = None
    THEN WalletOutcome(cn, "AssertionError", None)
    ELSE WalletOutcome(cn + 1, "none", cn)

\* What account.sign_transaction does with a transaction: it returns the
\* signed bytes, returns nothing, or raises.
SignerOutcomes == {"signed", "nothing", "raises"}

\* HSMWallet.sign_transaction_with_new_nonce(tx); tx_has_nonce: "nonce" in tx
sign_transaction_with_new_nonce(cn, tx_has_nonce, signer) ==
    IF tx_has_nonce
    THEN WalletOutcome(cn, "AssertionError", None)
    ELSE LET a == allocate_nonce(cn) IN
         IF a.exc # "none" THEN a
         ELSE IF signer = "raises" THEN WalletOutcome(a.current_nonce, "SignerError", a.nonce)
         ELSE IF signer = "nothing" THEN WalletOutcome(a.current_nonce, "Exception", a.nonce)
         ELSE a

\* wallet.sync_nonce(web3), the chain reporting transaction_count.
SyncNonce ==
    \E transaction_count \in 0 .. MaxNonce :
        /\ current_nonce' = sync_nonce(transaction_count)
        /\ synced_nonce' = transaction_count
        /\ allocated' = 0
        /\ wallet_ret' = [op |-> "sync_nonce", exc |-> "none", val |-> None]
        /\ UNCHANGED <<monitorVars, lazyVars>>

\* The model stops handing out nonces at 2 * MaxNonce.
NonceInBound == current_nonce = None \/ current_nonce < 2 * MaxNonce

\* wallet.allocate_nonce()
AllocateNonce ==
    /\ NonceInBound
    /\ LET a == allocate_nonce(current_nonce) IN
        /\ current_nonce' = a.current_nonce
        /\ wallet_ret' = [op |-> "allocate_nonce", exc |-> a.exc, val |-> a.nonce]
    /\ allocated' = IF synced_nonce = None THEN allocated ELSE allocated + 1
    /\ UNCHANGED <<synced_nonce, monitorVars, lazyVars>>

\* wallet.sign_transaction_with_new_nonce(tx); allocate_nonce is called
\* unless tx already carries a nonce.
SignTransaction ==
    \E tx_has_nonce \in BOOLEAN, signer \in SignerOutcomes :
        /\ NonceInBound
        /\ LET r == sign_transaction_with_new_nonce(current_nonce, tx_has_nonce, signer) IN
            /\ current_nonce' = r.current_nonce
            /\ wallet_ret' = [op |-> "sign_transaction_with_new_nonce", exc |-> r.exc,
                              val |-> r.nonce]
        /\ allocated' = IF synced_nonce = None \/ tx_has_nonce THEN allocated ELSE allocated + 1
        /\ UNCHANGED <<synced_nonce, monitorVars, lazyVars>>

InitWallet == InitWith({DefaultCheckDepth})
NextWallet == SyncNonce \/ AllocateNonce \/ SignTransaction
SpecWallet == InitWallet /\ [][NextWallet]_vars

(***************************************************************************)
(* SpecLazy: a LazyTimestampContainer over a range of blocks, asked for    *)
(* blocks by number or by hash; the node answers with any block.           *)
(***************************************************************************)
\* What update_block_hash leaves behind: the two caches, the exception, the
\* timestamp returned.
LazyOutcome(by_hash, by_number, exc, timestamp) ==
    [cache_by_block_hash |-> by_hash, cache_by_block_number |-> by_number,
     exc |-> exc, timestamp |-> timestamp]

\* convert_jsonrpc_value_to_int: the number a JSON-RPC "0x.." string encodes.
convert_jsonrpc_value_to_int(value) == value[2]

\* A block identifier: an int, or a hash (str or HexBytes).
IntIdentifier(number) == [type |-> "int", value |-> number]
HashIdentifier(block_hash) == [type |-> "hash", value |-> block_hash]

\* The answers of eth_getBlockByNumber / eth_getBlockByHash: number and
\* timestamp as JSON-RPC hex strings; nothing ties the answer to the
\* request or to the container's range.
NodeResults ==
    {[number |-> Hex(n), hash |-> h, timestamp |-> Hex(n * BlockDuration + skew)] :
        n \in 0 .. MaxBlock + 1, h \in {Hex(1), ForkMarker}, skew \in {0, 1}}

\* A plausible slip: the caches are written before the range is checked.
update_block_hash_late_check(by_hash, by_number, first_block, last_block, block_identifier, result) ==
    IF block_identifier.type = "int" /\ ~(block_identifier.value > 0)
    THEN LazyOutcome(by_hash, by_number, "AssertionError", None)
    ELSE LET block_number == convert_jsonrpc_value_to_int(result.number)
             timestamp == convert_jsonrpc_value_to_int(result.timestamp)
         IN  LazyOutcome(DictPut(by_hash, result.hash, timestamp),
                         DictPut(by_number, block_number, timestamp),
                         IF first_block <= block_number /\ block_number <= last_block
                         THEN "none" ELSE "OutOfSpecifiedRangeRead",
                         timestamp)

\* LazyTimestampContainer.update_block_hash, the node answering result
update_block_hash(by_hash, by_number, first_block, last_block, block_identifier, result) ==
    IF block_identifier.type = "int" /\ ~(block_identifier.value > 0)
    THEN LazyOutcome(by_hash, by_number, "AssertionError", None)
    ELSE LET block_number == convert_jsonrpc_value_to_int(result.number)
             timestamp == convert_jsonrpc_value_to_int(result.timestamp)
         IN  IF ~(first_block <= block_number /\ block_number <= last_block)
             THEN LazyOutcome(by_hash, by_number, "OutOfSpecifiedRangeRead", None)
             ELSE LazyOutcome(DictPut(by_hash, result.hash, timestamp),
                              DictPut(by_number, block_number, timestamp),
                              "none", timestamp)

\* container.update_block_hash(block_identifier); lazy_ret.number is the
\* block number of the node's answer (None if the node was not asked).
UpdateBlockHashCall(block_identifier, result) ==
    /\ LET r == update_block_hash(cache_by_block_hash, cache_by_block_number,
                                  lazy_start_block, lazy_end_block, block_identifier, result)
       IN
        /\ cache_by_block_hash' = r.cache_by_block_hash
        /\ cache_by_block_number' = r.cache_by_block_number
        /\ lazy_ret' = [op |-> "update_block_hash", exc |-> r.exc,
                        number |-> IF r.exc = "AssertionError" THEN None
                                   ELSE convert_jsonrpc_value_to_int(result.number),
                        val |-> r.timestamp]
    /\ UNCHANGED <<lazy_start_block, lazy_end_block, monitorVars, walletVars>>

UpdateBlockHashByNumber ==
    \E number \in 0 .. MaxBlock + 1, result \in NodeResults :
        UpdateBlockHashCall(IntIdentifier(number), result)

UpdateBlockHashByHash ==
    \E block_hash \in {Hex(1), ForkMarker}, result \in NodeResults :
        UpdateBlockHashCall(HashIdentifier(block_hash), result)

InitLazy ==
    /\ MonitorNew({DefaultCheckDepth}) /\ WalletNew
    /\ \E first_block \in 1 .. MaxBlock, last_block \in 1 .. MaxBlock :
           LazyNew(first_block, last_block)
NextLazy == UpdateBlockHashByNumber \/ UpdateBlockHashByHash
SpecLazy == InitLazy /\ [][NextLazy]_vars

(***************************************************************************)
(* Properties.                                                             *)
(***************************************************************************)
\* The keys of bm form a contiguous increasing run whose largest key is lbr.
NoGap(bm, lbr) ==
    Cardinality(DOMAIN bm) > 0 => DOMAIN bm = SetMin(DOMAIN bm) .. lbr

C10_ReorgDetection ==
    ret.op = "check_block_reorg" =>
        LET N == ret.arg.block_number
            H2 == ret.arg.block_hash
            mismatch == N \in DOMAIN block_map /\ block_map[N].block_hash # H2
        IN  /\ mismatch => /\ ret.exc = "ChainReorganisationDetected"
                           /\ ret.val.block_number = N
                           /\ ret.val.original_hash = block_map[N].block_hash
                           /\ ret.val.new_hash = H2
            /\ ~mismatch => ret.exc = "none"

\* check_block_reorg raised on a buffered block whose hash differs.
C10_Witness ==
    /\ ret.op = "check_block_reorg" /\ ret.exc = "ChainReorganisationDetected"
    /\ ret.arg.block_number \in DOMAIN block_map
    /\ ret.val.original_hash # ret.val.new_hash

\* C2, as stated: in every reachable state, also after a call that ended in
\* an error, a non-empty block_map has keys forming an unbroken run ending
\* at last_block_read.
C2_NoGapAlways == NoGap(block_map, last_block_read)

UpdateChainEnded == ret.op = "update_chain" /\ pc = "idle"

\* C6: when every detection pass of an update_chain() call meets a hash
\* mismatch, the call raises ReorganisationResolutionFailure after exactly
\* max_cycle_tries passes and returns no resolution; and it raises that
\* error in no other case.
C6_Exhaustion ==
    /\ (UpdateChainEnded /\ Len(reorgs) = passes) =>
          /\ ret.exc = "ReorganisationResolutionFailure"
          /\ passes = MaxCycleTries
          /\ ret.val = <<>>
    /\ (UpdateChainEnded /\ ret.exc = "ReorganisationResolutionFailure") =>
          /\ passes = MaxCycleTries
          /\ Len(reorgs) = passes
    /\ pc = "sleep" => (Len(reorgs) = passes /\ passes <= MaxCycleTries)

\* update_chain gave up.
C6_Witness ==
    /\ UpdateChainEnded /\ ret.exc = "ReorganisationResolutionFailure"
    /\ passes = MaxCycleTries

\* The smallest block at which the call caught a reorg.
SeqMin(seq) == SetMin({seq[i] : i \in 1 .. Len(seq)})

\* C8: within one update_chain() call max_purge never increases from one
\* caught reorg to the next, and the returned latest_block_with_good_data is
\* the minimum of B - 1 over the blocks B at which the call caught a reorg.
C8_WatermarkNarrows ==
    [][/\ (pc = "sleep" /\ pc' = "sleep") => max_purge' <= max_purge
       /\ (ret'.op = "update_chain" /\ ret'.exc = "none" /\ Len(reorgs') > 0) =>
             ret'.val.latest_block_with_good_data = SeqMin(reorgs') - 1]_vars

\* update_chain returned after catching reorgs at two blocks.
C8_Witness ==
    /\ ret.op = "update_chain" /\ ret.exc = "none"
    /\ Len(reorgs) >= 2
    /\ ret.val.latest_block_with_good_data = SeqMin(reorgs) - 1

\* C5, as stated: with block B buffered and inside the re-read range, a
\* source that forks B once and is stable afterwards, update_chain()
\* returns reorg_detected = True and latest_block_with_good_data <= B - 1,
\* and every buffered block >= B carries the source's current hash.
C5_Convergence ==
    (fork_block # 0 /\ UpdateChainEnded) =>
        /\ ret.exc = "none"
        /\ ret.val.reorg_detected
        /\ ret.val.latest_block_with_good_data <= fork_block - 1
        /\ \A n \in DOMAIN block_map :
              n >= fork_block => block_map[n].block_hash = simulated_blocks[n].block_hash

\* C7: check_depth = 20, buffer 1 .. ScenarioTip, one block of the re-read
\* range (block 95 among them) reported with another hash during the first
\* fetch only: update_chain() returns after at most 2 passes with
\* reorg_detected = True, the largest buffered key is >= ScenarioTip, every
\* buffered header is the source's final header, and get_block_timestamp
\* of the forked block returns the final header's timestamp.
C7_Scenario ==
    /\ (fork_block # 0 /\ UpdateChainEnded) =>
          /\ ret.exc = "none"
          /\ passes <= 2
          /\ ret.val.reorg_detected
          /\ SetMax(DOMAIN block_map) >= ScenarioTip
          /\ \A n \in DOMAIN block_map : block_map[n] = simulated_blocks[n]
    /\ (fork_block # 0 /\ ret.op = "get_block_timestamp") =>
          /\ ret.exc = "none"
          /\ ret.val = simulated_blocks[fork_block].timestamp
          /\ \A n \in DOMAIN block_map : block_map[n] = simulated_blocks[n]

\* The scenario ran to its end for the fork at block ScenarioTip - 5.
C7_Witness ==
    /\ fork_block = ScenarioTip - 5
    /\ check_depth = DefaultCheckDepth
    /\ ret.op = "get_block_timestamp" /\ ret.exc = "none"
    /\ passes = 2 /\ reorgs = <<fork_block>>
    /\ DOMAIN block_map = 1 .. get_last_block_live(simulated_block_number)

\* C11: ChainReorganisationDetected never leaves update_chain: a pass that
\* raises it is followed by truncate and the sleep before the retry.  Any
\* other error of a detection pass ends update_chain in that very step:
\* the pass is the call's last one, nothing the pass left in the buffer is
\* deleted, no reorg is recorded and the call does not sleep.
C11_OnlyReorgRecovered ==
    [][/\ ret'.exc # "ChainReorganisationDetected"
       /\ (ret'.op = "update_chain" /\ ret'.exc \in Fatal /\ ret' # ret) =>
             /\ pc' = "idle"
             /\ passes' = (IF pc = "sleep" THEN passes ELSE 0) + 1
             /\ reorgs' = (IF pc = "sleep" THEN reorgs ELSE <<>>)
             /\ last_block_read' = last_block_read
             /\ DOMAIN block_map \subseteq DOMAIN block_map'
       /\ (pc' = "sleep" /\ <<pc, passes>> # <<pc', passes'>>) =>
             /\ Len(reorgs') = Len(reorgs) + 1 \/ (pc = "idle" /\ Len(reorgs') = 1)
             /\ last_block_read' = reorgs'[Len(reorgs')] - 1]_vars

\* update_chain caught a reorg, retried, and the retry's pass raised another
\* error, which left the call.
C11_Witness ==
    /\ UpdateChainEnded /\ ret.exc = "AssertionError"
    /\ Len(reorgs) = 1 /\ passes = 2

\* C12, as stated: in any state reached by add_block, truncate and
\* update_chain, restoring the buffer's mapping into a new monitor gives a
\* block_map equal to the original and a last_block_read equal to the
\* original's.
C12_RoundTrip ==
    ret.op = "restore" =>
        /\ ret.exc = "none"
        /\ ret.val.block_map = block_map
        /\ ret.val.last_block_read = last_block_read

\* C13: get_block_timestamp(N) raises BlockNotAvailable when block_map is
\* empty or N is not buffered; otherwise it returns the timestamp of the
\* header stored for N.
C13_TimestampOrNotAvailable ==
    ret.op = "get_block_timestamp" =>
        IF ~has_data(block_map) \/ ret.arg \notin DOMAIN block_map
        THEN ret.exc = "BlockNotAvailable"
        ELSE ret.exc = "none" /\ ret.val = block_map[ret.arg].timestamp

\* get_block_timestamp refused a number the non-empty buffer does not hold.
C13_Witness ==
    /\ ret.op = "get_block_timestamp" /\ ret.exc = "BlockNotAvailable"
    /\ has_data(block_map) /\ ret.arg \notin DOMAIN block_map

\* C14, as stated: load_initial_block_headers(block_count=N) on an empty
\* buffer with the chain tip T > N leaves exactly the N headers numbered
\* T-N+1 .. T in block_map.
C14_LoadsLatestN ==
    [][\A N \in 1 .. MaxBlock :
          (/\ LoadInitialCall(N, 0)
           /\ ~has_data(block_map)
           /\ get_last_block_live(simulated_block_number) > N)
          => LET T == get_last_block_live(simulated_block_number) IN
             /\ ret'.exc = "none"
             /\ DOMAIN block_map' = (T - N + 1) .. T
             /\ Cardinality(DOMAIN block_map') = N]_vars

\* C15: after sync_nonce set the counter to n, the k-th allocate_nonce()
\* call since then returns n + k - 1 and leaves current_nonce = n + k;
\* allocate_nonce() before any sync_nonce fails and leaves the counter unset.
C15_NonceSequence ==
    /\ synced_nonce # None =>
          /\ current_nonce = synced_nonce + allocated
          /\ (wallet_ret.op = "allocate_nonce" =>
                 /\ wallet_ret.exc = "none"
                 /\ wallet_ret.val = synced_nonce + allocated - 1)
    /\ synced_nonce = None =>
          /\ current_nonce = None
          /\ (wallet_ret.op = "allocate_nonce" => wallet_ret.exc = "AssertionError")

\* The third allocate_nonce() since a sync_nonce to a non-zero count.
C15_Witness ==
    /\ synced_nonce # None /\ synced_nonce > 0
    /\ allocated = 3
    /\ wallet_ret.op = "allocate_nonce" /\ wallet_ret.exc = "none"

\* C16: whenever the block number the node answers with lies outside
\* [start_block, end_block], update_block_hash raises
\* OutOfSpecifiedRangeRead and neither cache changes; every key of
\* cache_by_block_number lies within [start_block, end_block].
C16_OutOfRangeRefused ==
    [][/\ (lazy_ret'.op = "update_block_hash" /\ lazy_ret'.number # None
           /\ ~(lazy_start_block <= lazy_ret'.number /\ lazy_ret'.number <= lazy_end_block)) =>
             /\ lazy_ret'.exc = "OutOfSpecifiedRangeRead"
             /\ cache_by_block_hash' = cache_by_block_hash
             /\ cache_by_block_number' = cache_by_block_number
       /\ \A n \in DOMAIN cache_by_block_number' :
             lazy_start_block <= n /\ n <= lazy_end_block]_vars

\* update_block_hash refused an answer above the range while the caches
\* held blocks of the range.
C16_Witness ==
    /\ lazy_ret.op = "update_block_hash" /\ lazy_ret.exc = "OutOfSpecifiedRangeRead"
    /\ lazy_ret.number > lazy_end_block
    /\ Cardinality(DOMAIN cache_by_block_number) >= 2

\* C17: a pass of figure_reorganisation_and_new_blocks() that raises nothing
\* reads the range [max(last_block_read - check_depth, 1), chain tip] and no
\* other block; every block of the range that was buffered has the hash
\* the source yields and is kept, every other block of the range is
\* appended as yielded, and last_block_read becomes the larger of its
\* previous value and the highest block yielded.
C17_CleanPass ==
    [][((UpdateChain \/ UpdateChainWake) /\ ret'.exc = "none") =>
          LET first == Max2(last_block_read - check_depth, 1)
              tip == simulated_block_number - 1
              rng == first .. tip
          IN  /\ DOMAIN block_map' = DOMAIN block_map \cup rng
              /\ \A n \in rng \cap DOMAIN block_map :
                    /\ block_map[n].block_hash = simulated_blocks[n].block_hash
                    /\ block_map'[n] = block_map[n]
              /\ \A n \in rng \ DOMAIN block_map : block_map'[n] = simulated_blocks[n]
              /\ \A n \in DOMAIN block_map \ rng :
                    /\ block_map'[n] = block_map[n]
                    /\ observed'[n] = observed[n]
              /\ \A n \in rng : observed'[n] = simulated_blocks[n]
              /\ last_block_read' = IF rng = {} THEN last_block_read
                                    ELSE Max2(last_block_read, tip)]_vars

\* The pass after a caught reorg at block B was clean: it compared block
\* B - 1, which stayed buffered, and appended block B again.
C17_Witness ==
    /\ UpdateChainEnded /\ ret.exc = "none"
    /\ passes = 2 /\ Len(reorgs) = 1 /\ check_depth >= 1
    /\ reorgs[1] \in DOMAIN block_map
    /\ reorgs[1] - 1 \in DOMAIN block_map

\* C18, as stated: a ChainReorganisationDetected caught at block B is
\* followed, before the next pass, by truncate(B - 1) and one try less; the
\* next pass starts from a buffer that holds no block >= B; and an
\* update_chain() call that caught a reorg ends only by returning a
\* resolution or by raising ReorganisationResolutionFailure.
C18_ReorgCycle ==
    [][/\ ((UpdateChain \/ UpdateChainWake) /\ pc' = "sleep") =>
             LET B == reorgs'[Len(reorgs')] IN
             /\ last_block_read' = B - 1
             /\ \A n \in DOMAIN block_map' : n < B
             /\ tries_left' = (IF pc = "sleep" THEN tries_left ELSE MaxCycleTries) - 1
       /\ (UpdateChainWake /\ Len(reorgs) > 0) =>
             \A n \in DOMAIN block_map : n < reorgs[Len(reorgs)]
       /\ (ret'.op = "update_chain" /\ pc' = "idle" /\ Len(reorgs') > 0) =>
             ret'.exc \in {"none", "ReorganisationResolutionFailure"}]_vars

\* C19: update_chain() terminates, whatever the source yields between its
\* passes: it never makes more than max_cycle_tries detection passes, and a
\* call that sleeps is followed by its return or raise.
C19_Terminates ==
    /\ [](passes <= MaxCycleTries)
    /\ (pc = "sleep") ~> (pc = "idle")

\* update_chain returned a resolution from its last permitted pass.
C19_Witness ==
    /\ UpdateChainEnded /\ ret.exc = "none"
    /\ passes = MaxCycleTries


(***************************************************************************)
(* Short reads.                                                            *)
(***************************************************************************)
\* The source yielded a header the buffer does not hold.
YieldedNew(start_block, available) ==
    \E n \in start_block .. available : n \notin DOMAIN block_map

\* No yielded header contradicts the buffer.
YieldedAgree(start_block, available) ==
    \A n \in (start_block .. available) \cap DOMAIN block_map :
        block_map[n].block_hash = simulated_blocks[n].block_hash

\* What C20 says of a read that began at start_block and ended at available.
AfterShortRead(start_block, available) ==
    /\ ret'.exc = "none"
    /\ NoGap(block_map', last_block_read')
    /\ last_block_read' = IF YieldedNew(start_block, available)
                          THEN available ELSE last_block_read

\* A load_initial_block_headers call or an update_chain pass that gets only
\* a prefix of the range it asked for, none of it contradicting the buffer.
ShortLoad(available) ==
    /\ available < get_last_block_live(simulated_block_number)
    /\ ret'.op = "load_initial_block_headers"
    /\ \/ \E block_count \in 1 .. MaxBlock : LoadInitialCallOver(block_count, 0, available)
       \/ \E start_block \in 1 .. MaxBlock :
              ~has_data(block_map) /\ LoadInitialCallOver(0, start_block, available)

ShortPass(available) ==
    /\ available < get_last_block_live(simulated_block_number)
    /\ ret'.op = "update_chain"
    /\ YieldedAgree(check_start_at(last_block_read, check_depth), available)
    /\ \/ UpdateChainOver(available)
       \/ loop_continues(tries_left) /\ UpdateChainWakeOver(available)

\* C20, as stated: when the source yields only a prefix of the requested
\* range, load_initial_block_headers and update_chain complete without
\* error, the buffer stays contiguous, and last_block_read is the highest
\* block number yielded, or its previous value if nothing new was yielded.
C20_ShortRead ==
    [][\A available \in 0 .. MaxBlock :
          /\ ShortLoad(available) =>
                 \E start_block \in 1 .. MaxBlock + 1 :
                     /\ ret'.val[1] = start_block
                     /\ AfterShortRead(start_block, available)
          /\ ShortPass(available) =>
                 AfterShortRead(check_start_at(last_block_read, check_depth), available)]_vars


(***************************************************************************)
(* Resuming a load.                                                        *)
(***************************************************************************)
\* C21: load_initial_block_headers on a buffer that has data reads from
\* max(block_map.keys()) + 1 to the chain tip whatever block_count or
\* start_block asks for, appends every header it reads and nothing else,
\* leaves the buffer contiguous, raises nothing and returns that start;
\* a buffer that already reaches the tip is left as it is.
C21_ResumesAfterLastSaved ==
    [][(/\ has_data(block_map)
        /\ pc = "idle"
        /\ ret'.op = "load_initial_block_headers"
        /\ simulated_blocks' = simulated_blocks
        /\ \E requested \in ((1 .. MaxBlock) \X {0}) \cup ({0} \X (1 .. MaxBlock)) :
               LoadInitialCall(requested[1], requested[2]))
          => LET resume == SetMax(DOMAIN block_map) + 1
                 tip == get_last_block_live(simulated_block_number)
             IN  /\ ret'.exc = "none"
                 /\ ret'.val = <<resume, tip>>
                 /\ DOMAIN block_map' = DOMAIN block_map \cup (resume .. tip)
                 /\ \A n \in DOMAIN block_map : block_map'[n] = block_map[n]
                 /\ \A n \in resume .. tip : block_map'[n] = simulated_blocks[n]
                 /\ NoGap(block_map', last_block_read')
                 /\ resume > tip => /\ block_map' = block_map
                                    /\ last_block_read' = last_block_read]_vars

\* A load that resumed after a buffered block and appended the next one.
C21_Witness ==
    /\ ret.op = "load_initial_block_headers" /\ ret.exc = "none"
    /\ ret.val[1] - 1 \in DOMAIN block_map
    /\ ret.val[1] \in DOMAIN block_map


(***************************************************************************)
(* The save hook of a load.                                                *)
(***************************************************************************)
\* C22, as stated: load_initial_block_headers with a save_callable, with or
\* without a progress bar, calls save_callable once after each appended
\* header, in block order, and runs to completion whatever value
\* save_callable reports as last saved block.
C22_SaveAfterEveryBlock ==
    [][(/\ pc = "idle"
        /\ ret'.op = "load_initial_block_headers"
        /\ simulated_blocks' = simulated_blocks
        /\ \E tqdm \in BOOLEAN : \E last_saved \in Reported :
               \E requested \in ((1 .. MaxBlock) \X {0}) \cup ({0} \X (1 .. MaxBlock)) :
                   LoadInitialSavingCall(requested[1], requested[2], tqdm, last_saved))
       => LET first == ret'.val[1]
              end_block == ret'.val[2]
          IN  /\ ret'.exc = "none"
              /\ last_block_read' = IF first <= end_block THEN end_block ELSE last_block_read
              /\ save_calls' = [k \in 1 .. Max2(end_block - first + 1, 0) |-> first + k - 1]]_vars


(***************************************************************************)
(* last_block_read = 0 as "no data".                                       *)
(***************************************************************************)
\* C23, as stated: in every state the monitor reaches, last_block_read is 0
\* exactly when block_map is empty, also after the truncate of update_chain
\* at a reorg of the oldest buffered block.
C23_ZeroIffEmpty == ~Crashed => (last_block_read = 0 <=> ~has_data(block_map))


(***************************************************************************)
(* Two threads in update_chain.                                            *)
(***************************************************************************)
\* No thread was inside update_chain while another one was.
Serialized == \A t \in DOMAIN threads : ~threads[t].overlapped

\* A thread left update_chain by a failed precondition of add_block or
\* truncate.
PreconditionFailed == \E t \in DOMAIN threads : threads[t].exc \in Fatal

\* C24: two update_chain() calls that run one after the other never fail a
\* precondition of add_block or truncate and leave a buffer without a gap;
\* interleaved, they reach a state where a precondition has failed (the
\* witness).
C24_SerializedCallsSafe ==
    Serialized =>
        /\ ~PreconditionFailed
        /\ Inside = {} => NoGap(block_map, last_block_read)

\* Two interleaved calls, one of them ended by a failed precondition.
C24_Witness ==
    /\ DOMAIN threads = Threads
    /\ ~Serialized
    /\ PreconditionFailed


(***************************************************************************)
(* update_chain after a load by block_count.                               *)
(***************************************************************************)
\* C25, as stated: for every check_depth and block_count, an update_chain()
\* call that follows load_initial_block_headers(block_count) ends only by
\* returning a resolution or by raising ReorganisationResolutionFailure,
\* never by a failed precondition of add_block or truncate.
C25_NoPreconditionFailure ==
    UpdateChainEnded => ret.exc \in {"none", "ReorganisationResolutionFailure"}


(***************************************************************************)
(* What a failed or a read-only call leaves behind.                        *)
(***************************************************************************)
\* C26, as stated: an add_block call that fails its precondition (the block
\* number is buffered already, or is not last_block_read + 1) leaves
\* block_map and last_block_read as they were.
C26_FailedAddChangesNothing ==
    [][(/\ ret'.op = "add_block"
        /\ ret'.exc # "none"
        /\ \E record \in HeadersOf(1 .. MaxBlock) : AddBlockCall(record))
       => /\ block_map' = block_map
          /\ last_block_read' = last_block_read]_vars


(***************************************************************************)
(* The resolution update_chain returns.                                    *)
(***************************************************************************)
\* C27: every resolution update_chain() returns has
\* latest_block_with_good_data <= last_live_block, last_live_block equal to
\* last_block_read at the return, and reorg_detected true exactly when the
\* call caught a reorg; a call that caught none returns last_block_read as
\* it was on entry as latest_block_with_good_data.
C27_Resolution ==
    [][(/\ ret'.op = "update_chain" /\ ret'.exc = "none"
        /\ UpdateChain \/ UpdateChainWake)
       => /\ ret'.val.latest_block_with_good_data <= ret'.val.last_live_block
          /\ ret'.val.last_live_block = last_block_read'
          /\ ret'.val.reorg_detected <=> Len(reorgs') > 0
          /\ Len(reorgs') = 0 =>
                 ret'.val.latest_block_with_good_data = last_block_read]_vars

\* A resolution after a caught reorg that names a block below the new tip.
C27_Witness ==
    /\ UpdateChainEnded /\ ret.exc = "none"
    /\ Len(reorgs) > 0
    /\ ret.val.latest_block_with_good_data < ret.val.last_live_block
    /\ ret.val.last_live_block = last_block_read


(***************************************************************************)
(* The reorgs of one update_chain() call.                                  *)
(***************************************************************************)
\* The reorgs the call had caught before the step.
ReorgsBefore == IF pc = "sleep" THEN reorgs ELSE <<>>

\* The step is a pass of update_chain that caught a reorg.
CaughtReorg ==
    /\ ret'.op = "update_chain"
    /\ UpdateChain \/ UpdateChainWake
    /\ Len(reorgs') > Len(ReorgsBefore)

\* C28: within one update_chain() call the blocks at which successive
\* reorgs are detected are strictly decreasing; a pass that starts with
\* last_block_read = 0 detects no reorg; and no reorg is caught while the
\* watermark max_purge is 0, so the branch max_purge = e.block_number is
\* not taken.
C28_ReorgsDescend ==
    [][/\ CaughtReorg =>
             /\ \A k \in 1 .. Len(reorgs') - 1 : reorgs'[k] > reorgs'[k + 1]
             /\ last_block_read # 0
             /\ (IF pc = "sleep" THEN max_purge ELSE last_block_read) # 0
       /\ (pc' = "sleep" /\ CaughtReorg) =>
             max_purge' = Min2(reorgs'[Len(reorgs')] - 1,
                               IF pc = "sleep" THEN max_purge ELSE last_block_read)]_vars

\* A call that caught a second reorg, below the first one.
C28_Witness ==
    /\ pc = "sleep"
    /\ Len(reorgs) >= 2
    /\ reorgs[2] < reorgs[1]


\* C29: check_block_reorg and get_block_timestamp leave block_map and
\* last_block_read as they were, whether they return or raise
\* ChainReorganisationDetected or BlockNotAvailable.
C29_ReadOnlyCalls ==
    [][(/\ ret'.op \in {"check_block_reorg", "get_block_timestamp"}
        /\ CheckBlockReorg \/ GetBlockTimestamp)
       => /\ block_map' = block_map
          /\ last_block_read' = last_block_read]_vars

\* check_block_reorg has raised on a buffered block that is still buffered.
C29_Witness ==
    /\ ret.op = "check_block_reorg" /\ ret.exc = "ChainReorganisationDetected"
    /\ ret.arg.block_number \in DOMAIN block_map
    /\ block_map[ret.arg.block_number].block_hash = ret.val.original_hash
    /\ last_block_read >= ret.arg.block_number


(***************************************************************************)
(* A failed signing.                                                       *)
(***************************************************************************)
\* C30, as stated: when the signer returns nothing or raises inside
\* sign_transaction_with_new_nonce, current_nonce is afterwards what it was
\* before the call, so that the next signed transaction carries the nonce
\* of the failed call.
C30_FailedSigningKeepsNonce ==
    [][(/\ wallet_ret'.op = "sign_transaction_with_new_nonce"
        /\ wallet_ret'.exc \in {"SignerError", "Exception"}
        /\ SignTransaction)
       => current_nonce' = current_nonce]_vars

====
